---------------------------- MODULE Spec2Model ----------------------------
(***************************************************************************)
(* BlizzardAdapter (package runtime): a JSON-RPC client multiplexed over   *)
(* one websocket.  Caller tasks invoke Connect, Call, Subscribe, Close and *)
(* Subscription.Close concurrently; every successful Connect starts one    *)
(* readLoop goroutine.  Each action below is one atomic step of the Go     *)
(* code: a critical section of one mutex, one channel operation, or the    *)
(* return of one blocking transport call.                                  *)
(***************************************************************************)
EXTENDS Integers, Sequences, FiniteSets, TLC

\* ------------------------------------------------------------- bounds
NCallers == 2    \* tasks that invoke Call, once each
NUsers == 1      \* tasks that invoke Connect, Close, Subscribe, Subscription.Close
MaxConns == 2    \* transport handles ever dialed (Connect and reconnect)
MaxSubs == 2     \* Subscribe invocations
MaxBuf == 1      \* largest Subscribe buffer

Callers == 1..NCallers
Users == (NCallers + 1)..(NCallers + NUsers)
Tasks == Callers \cup Users
\* The read loop started by the Connect that dialed handle h.
LoopOf(h) == NCallers + NUsers + h
Loops == {LoopOf(h) : h \in 1..MaxConns}
Procs == Tasks \cup Loops

\* ------------------------------------------------------------- frames
\* A frame read from the transport, by what encoding/json makes of it:
\* json: the bytes parse as a JSON object; id: the "id" string (0 = absent
\* or ""); method: "method" is non-empty; result / error: the member is
\* present.
MkFrame(j, i, m, r, e) == [json |-> j, id |-> i, method |-> m, result |-> r, error |-> e]
RespResult(i) == MkFrame(TRUE, i, FALSE, TRUE, FALSE)
RespError(i) == MkFrame(TRUE, i, FALSE, FALSE, TRUE)
Notify == MkFrame(TRUE, 0, TRUE, FALSE, FALSE)
IdMethod(i) == MkFrame(TRUE, i, TRUE, FALSE, FALSE)
EmptyObj == MkFrame(TRUE, 0, FALSE, FALSE, FALSE)
Garbage == MkFrame(FALSE, 0, FALSE, FALSE, FALSE)

\* readLoop's first test: the frame decodes as a response.
IsResponse(f) == f.json /\ f.id # 0 /\ (f.result \/ f.error)
\* readLoop's second test, on a frame that failed the first.
IsNotification(f) == f.json /\ f.method

\* devicemgr.Event, without OccurredAt.
DeviceId == "001122334455"
MkEvent(k, pl, txt) ==
  [kind |-> k, device |-> DeviceId, source |-> "blizzard-adapter", payload |-> pl, text |-> txt]

\* What an operation returned: the return statement (its source line), the
\* error ("nil" for none) and, for a Call that returns a BlizzardResult, the
\* response frame it decoded.
MkOut(o, l, e, fr) == [op |-> o, line |-> l, err |-> e, frame |-> fr]
NoOut == MkOut("none", 0, "nil", <<>>)

VARIABLES
  pc,            \* position of every task and read loop
  lc,            \* the local variable c (a transport handle, 0 = nil)
  out,           \* what the task's last operation returned
  afterClose,    \* the task's operation was invoked after a Close had returned
  loop,          \* readLoop locals: retried, data, ch, the broadcast in progress
  conn,          \* b.conn (0 = nil)
  handles,       \* handles[h]: transport handle h is open on our side
  wire,          \* wire[h]: request ids written to handle h
  pending,       \* b.pending: id -> channel
  chans,         \* chans[t]: the channel ch made by caller t's Call
  call,          \* call[t]: caller t's argument: Method, the Timeout passed, call.Timeout
  listeners,     \* b.listeners
  subs,          \* the subscriptions' channels: buffer, capacity, closed
  closed,        \* b.closed is closed
  closeReturned, \* a Close that performed the transition has returned
  panicked,      \* the runtime panic that ended the process, or "none"
  lastIDs,       \* DeviceAdapter d.lastIDs: the ids of the last successful poll
  devListeners,  \* DeviceAdapter d.listeners
  devSubs,       \* the eventSub values: channel buffer, capacity, closed, closeFn
  poll,          \* the PollOnce in progress: position, ids, currSet, loop iterators
  emitted        \* the events the emitDiff in progress has passed to broadcast

taskVars == <<out, afterClose>>
connVars == <<conn, handles, wire>>
callVars == <<pending, chans, call>>
subVars == <<listeners, subs>>
devVars == <<lastIDs, devListeners, devSubs, poll, emitted>>
vars == <<pc, lc, taskVars, loop, connVars, callVars, subVars, closed, closeReturned, panicked,
          devVars>>


\* Maps such as b.pending: the empty map, insertion, deletion.
EmptyMap == [i \in {} |-> 0]
Put(m, k, v) == [i \in DOMAIN m \cup {k} |-> IF i = k THEN v ELSE m[i]]
Delete(m, k) == [i \in DOMAIN m \ {k} |-> m[i]]

NoCall == [method |-> "", given |-> 0, timeout |-> 0]
NewChan == [buf |-> <<>>, closed |-> FALSE, sent |-> 0]
\* No PollOnce is running.
NoPoll == [pc |-> "idle", ret |-> "none", ids |-> <<>>, currSet |-> {}, iter |-> {}]
NoLoop == [retried |-> FALSE, data |-> <<>>, ch |-> 0, site |-> "none", evt |-> <<>>, snap |-> <<>>]

Init ==
  /\ pc = [p \in Procs |-> IF p \in Tasks THEN "idle" ELSE "unborn"]
  /\ lc = [p \in Procs |-> 0]
  /\ out = [t \in Tasks |-> NoOut]
  /\ afterClose = [t \in Tasks |-> FALSE]
  /\ loop = [l \in Loops |-> NoLoop]
  /\ conn = 0
  /\ handles = <<>>
  /\ wire = <<>>
  /\ pending = EmptyMap
  /\ chans = [t \in Callers |-> NewChan]
  /\ call = [t \in Callers |-> NoCall]
  /\ listeners = <<>>
  /\ subs = <<>>
  /\ closed = FALSE
  /\ closeReturned = FALSE
  /\ panicked = "none"
  \* NewDeviceAdapter, lines 239-246.
  /\ lastIDs = {}
  /\ devListeners = <<>>
  /\ devSubs = <<>>
  /\ poll = NoPoll
  /\ emitted = <<>>

\* ------------------------------------------------------------- helpers
Alive == panicked = "none"
Goto(p, to) == pc' = [pc EXCEPT ![p] = to]
\* Task t returns o; its locals are gone.
Returns(t, o) ==
  /\ pc' = [pc EXCEPT ![t] = IF t \in Callers THEN "done" ELSE "idle"]
  /\ out' = [out EXCEPT ![t] = o]
  /\ lc' = [lc EXCEPT ![t] = 0]
\* Close returns o from a task, and returns from the read loop, which exits.
ReturnsP(p, o) ==
  IF p \in Tasks THEN Returns(p, o)
  ELSE /\ pc' = [pc EXCEPT ![p] = "exit"]
       /\ lc' = [lc EXCEPT ![p] = 0]
       /\ UNCHANGED out
Invoke(t) == afterClose' = [afterClose EXCEPT ![t] = closeReturned]

\* ------------------------------------------------------------- Connect
\* Connect, lines 113-129: DialContext returns (url.Parse of the fixed base
\* address and the header are local).  ok: the dial succeeded.
ConnectDial(t, ok) ==
  /\ Alive /\ pc[t] = "idle"
  /\ Len(handles) < MaxConns
  /\ Invoke(t)
  /\ IF ok
       THEN /\ handles' = Append(handles, TRUE)
            /\ wire' = Append(wire, {})
            /\ lc' = [lc EXCEPT ![t] = Len(handles) + 1]
            /\ Goto(t, "connect_install")
            /\ UNCHANGED out
       ELSE /\ Returns(t, MkOut("Connect", 128, "dial error", <<>>))
            /\ UNCHANGED <<handles, wire>>
  /\ UNCHANGED <<loop, conn, callVars, subVars, closed, closeReturned, panicked>>
  /\ UNCHANGED devVars

\* Connect, lines 130-134: install the handle, start the read loop, return nil.
ConnectInstall(t) ==
  /\ Alive /\ pc[t] = "connect_install"
  /\ conn' = lc[t]
  /\ pc' = [pc EXCEPT ![t] = "idle", ![LoopOf(lc[t])] = "rl_start"]
  /\ out' = [out EXCEPT ![t] = MkOut("Connect", 134, "nil", <<>>)]
  /\ lc' = [lc EXCEPT ![t] = 0]
  /\ UNCHANGED <<afterClose, loop, handles, wire, callVars, subVars,
                 closed, closeReturned, panicked>>
  /\ UNCHANGED devVars

\* ------------------------------------------------------------- Close
\* Close is run by caller tasks and, on its fatal path, by the read loop.
AtClose(p) == (p \in Users /\ pc[p] = "idle") \/ (p \in Loops /\ pc[p] = "rl_close")

\* Close without the test of b.closed at lines 165-168.
CloseCheckAlways(p) ==
  /\ Alive /\ AtClose(p)
  /\ Goto(p, "close_flag")
  /\ UNCHANGED <<lc, taskVars, loop, connVars, callVars, subVars,
                 closed, closeReturned, panicked>>
  /\ UNCHANGED devVars

\* Close, lines 165-168: the select on b.closed.
CloseCheck(p) ==
  /\ Alive /\ AtClose(p)
  /\ IF closed
       THEN ReturnsP(p, MkOut("Close", 167, "nil", <<>>))
       ELSE Goto(p, "close_flag") /\ UNCHANGED <<out, lc>>
  /\ UNCHANGED <<afterClose, loop, connVars, callVars, subVars,
                 closed, closeReturned, panicked>>
  /\ UNCHANGED devVars

\* Close, line 169: close(b.closed); closing a closed channel panics.
CloseFlag(p) ==
  /\ Alive /\ pc[p] = "close_flag"
  /\ IF closed
       THEN panicked' = "close of closed channel: b.closed" /\ UNCHANGED <<pc, closed>>
       ELSE closed' = TRUE /\ Goto(p, "close_conn") /\ UNCHANGED panicked
  /\ UNCHANGED <<lc, taskVars, loop, connVars, callVars, subVars, closeReturned>>
  /\ UNCHANGED devVars

\* Close, lines 171-174: take b.conn and set it to nil under connMu.
CloseConn(p) ==
  /\ Alive /\ pc[p] = "close_conn"
  /\ lc' = [lc EXCEPT ![p] = conn]
  /\ conn' = 0
  /\ Goto(p, "close_transport")
  /\ UNCHANGED <<taskVars, loop, handles, wire, callVars, subVars, closed,
                 closeReturned, panicked>>
  /\ UNCHANGED devVars

\* Close, lines 175-177: close the handle taken, if any.
CloseTransport(p) ==
  /\ Alive /\ pc[p] = "close_transport"
  /\ handles' = IF lc[p] # 0 THEN [handles EXCEPT ![lc[p]] = FALSE] ELSE handles
  /\ Goto(p, "close_drain")
  /\ UNCHANGED <<lc, taskVars, loop, conn, wire, callVars, subVars, closed,
                 closeReturned, panicked>>
  /\ UNCHANGED devVars

\* A select parked on channel k is woken by the send or close that makes k
\* ready, with the channel case chosen.
Woken(ks) ==
  [q \in Procs |-> IF q \in Callers /\ pc[q] = "call_parked" /\ q \in ks
                     THEN "call_recv" ELSE pc[q]]

\* Close, lines 178-183: under pendingMu, close and delete every entry.
CloseDrain(p) ==
  /\ Alive /\ pc[p] = "close_drain"
  /\ LET ks == {pending[i] : i \in DOMAIN pending}
     IN IF \E k \in ks : chans[k].closed
          THEN /\ panicked' = "close of closed channel: pending"
               /\ UNCHANGED <<pc, pending, chans>>
          ELSE /\ chans' = [k \in DOMAIN chans |->
                              IF k \in ks THEN [chans[k] EXCEPT !.closed = TRUE]
                                          ELSE chans[k]]
               /\ pending' = EmptyMap
               /\ pc' = [Woken(ks) EXCEPT ![p] = "close_listeners"]
               /\ UNCHANGED panicked
  /\ UNCHANGED <<call, lc, taskVars, loop, connVars, subVars, closed, closeReturned>>
  /\ UNCHANGED devVars

\* Close, lines 184-187: drop the registry and return nil.
CloseListeners(p) ==
  /\ Alive /\ pc[p] = "close_listeners"
  /\ listeners' = <<>>
  /\ ReturnsP(p, MkOut("Close", 187, "nil", <<>>))
  /\ closeReturned' = TRUE
  /\ UNCHANGED <<afterClose, loop, connVars, callVars, subs, closed,
                 panicked>>
  /\ UNCHANGED devVars

\* ------------------------------------------------------------- Call
Methods == {"", "ping"}

\* The Timeout values a caller passes, in seconds: negative, zero (the
\* field left unset) and positive.
Timeouts == {-1, 0, 2}

\* The default of line 196, in seconds.
DefaultTimeout == 5

\* Call, lines 195-197: a Timeout of zero or less becomes the default.
WithDefault(timeout) == IF timeout <= 0 THEN DefaultTimeout ELSE timeout

\* Caller t's argument: Method, the Timeout as passed, and call.Timeout as
\* Call holds it.
MkCall(m, g, d) == [method |-> m, given |-> g, timeout |-> d]

\* uuid.NewString(), line 199: an id no other Call has.
NewId(t) == t

\* Call without lines 195-197: call.Timeout stays as the caller passed it.
CallStartNoDefault(t, method, timeout, marshalOk) ==
  /\ Alive /\ pc[t] = "idle"
  /\ Invoke(t)
  /\ call' = [call EXCEPT ![t] = MkCall(method, timeout, timeout)]
  /\ IF method = ""
       THEN /\ Returns(t, MkOut("Call", 193, "method required", <<>>))
            /\ UNCHANGED pending
       ELSE IF ~marshalOk
       THEN /\ Returns(t, MkOut("Call", 203, "marshal error", <<>>))
            /\ UNCHANGED pending
       ELSE /\ pending' = Put(pending, NewId(t), t)
            /\ Goto(t, "call_conn")
            /\ UNCHANGED <<out, lc>>
  /\ UNCHANGED <<loop, connVars, chans, subVars, closed, closeReturned, panicked>>
  /\ UNCHANGED devVars

\* Call that leaves the registration of lines 206-209 for later: the request
\* is marshalled and goes to the write with no entry in b.pending.
CallStartUnregistered(t, method, timeout, marshalOk) ==
  /\ Alive /\ pc[t] = "idle"
  /\ Invoke(t)
  /\ IF method = ""
       THEN /\ Returns(t, MkOut("Call", 193, "method required", <<>>))
            /\ call' = [call EXCEPT ![t] = MkCall(method, timeout, timeout)]
       ELSE IF ~marshalOk
       THEN /\ Returns(t, MkOut("Call", 203, "marshal error", <<>>))
            /\ call' = [call EXCEPT ![t] = MkCall(method, timeout, WithDefault(timeout))]
       ELSE /\ call' = [call EXCEPT ![t] = MkCall(method, timeout, WithDefault(timeout))]
            /\ Goto(t, "call_conn")
            /\ UNCHANGED <<out, lc>>
  /\ UNCHANGED <<loop, connVars, pending, chans, subVars, closed, closeReturned, panicked>>
  /\ UNCHANGED devVars

\* Call, lines 192-209: reject an empty method; default the timeout; generate
\* the id; marshal;
\* make the channel and register it under pendingMu.
CallStart(t, method, timeout, marshalOk) ==
  /\ Alive /\ pc[t] = "idle"
  /\ Invoke(t)
  /\ IF method = ""
       THEN /\ Returns(t, MkOut("Call", 193, "method required", <<>>))
            /\ call' = [call EXCEPT ![t] = MkCall(method, timeout, timeout)]
            /\ UNCHANGED pending
       ELSE IF ~marshalOk
       THEN /\ Returns(t, MkOut("Call", 203, "marshal error", <<>>))
            /\ call' = [call EXCEPT ![t] = MkCall(method, timeout, WithDefault(timeout))]
            /\ UNCHANGED pending
       ELSE /\ pending' = Put(pending, NewId(t), t)
            /\ call' = [call EXCEPT ![t] = MkCall(method, timeout, WithDefault(timeout))]
            /\ Goto(t, "call_conn")
            /\ UNCHANGED <<out, lc>>
  /\ UNCHANGED <<loop, connVars, chans, subVars, closed, closeReturned, panicked>>
  /\ UNCHANGED devVars

\* Call without the return of lines 214-216: a nil b.conn is handed to the
\* write path, whose failure deregisters and returns the write error.
CallReadConnNoNilTest(t) ==
  /\ Alive /\ pc[t] = "call_conn"
  /\ IF conn = 0
       THEN Goto(t, "call_werr") /\ UNCHANGED lc
       ELSE lc' = [lc EXCEPT ![t] = conn] /\ Goto(t, "call_writing")
  /\ UNCHANGED <<taskVars, loop, connVars, callVars, subVars, closed,
                 closeReturned, panicked>>
  /\ UNCHANGED devVars

\* Call, lines 211-217: read b.conn under connMu; nil returns "not connected",
\* otherwise the task enters c.WriteMessage.
CallReadConn(t) ==
  /\ Alive /\ pc[t] = "call_conn"
  /\ IF conn = 0
       THEN Returns(t, MkOut("Call", 215, "not connected", <<>>))
       ELSE /\ lc' = [lc EXCEPT ![t] = conn]
            /\ Goto(t, "call_writing")
            /\ UNCHANGED out
  /\ UNCHANGED <<afterClose, loop, connVars, callVars, subVars, closed,
                 closeReturned, panicked>>
  /\ UNCHANGED devVars

\* Call, line 217: c.WriteMessage returns; it can succeed only on an open handle.
CallWriteEnd(t, ok) ==
  /\ Alive /\ pc[t] = "call_writing"
  /\ ok => handles[lc[t]]
  /\ IF ok
       THEN /\ wire' = [wire EXCEPT ![lc[t]] = @ \cup {NewId(t)}]
            /\ Goto(t, "call_select")
       ELSE /\ Goto(t, "call_werr")
            /\ UNCHANGED wire
  /\ UNCHANGED <<lc, taskVars, loop, conn, handles, callVars, subVars, closed,
                 closeReturned, panicked>>
  /\ UNCHANGED devVars

\* Call, lines 218-221: deregister and return the write error.
CallWriteErr(t) ==
  /\ Alive /\ pc[t] = "call_werr"
  /\ pending' = Delete(pending, NewId(t))
  /\ Returns(t, MkOut("Call", 221, "write error", <<>>))
  /\ UNCHANGED <<call, afterClose, loop, connVars, chans, subVars, closed,
                 closeReturned, panicked>>
  /\ UNCHANGED devVars

ChanReady(k) == chans[k].closed \/ chans[k].buf # <<>>

\* The receive that treats a response carrying an error object as a failed
\* call: it returns an error and no data.
ReceiveErrorFails(t) ==
  IF chans[t].buf = <<>>
    THEN /\ Returns(t, MkOut("Call", 235, "connection closed", <<>>))
         /\ UNCHANGED chans
    ELSE /\ chans' = [chans EXCEPT ![t].buf = <<>>]
         /\ IF Head(chans[t].buf).json /\ ~Head(chans[t].buf).error
              THEN Returns(t, MkOut("Call", 241, "nil", chans[t].buf))
              ELSE Returns(t, MkOut("Call", 239, "rpc error", <<>>))

\* Call, lines 233-241: the receive from ch.  Closed and empty returns
\* "connection closed"; otherwise the frame is decoded and returned.
Receive(t) ==
  IF chans[t].buf = <<>>
    THEN /\ Returns(t, MkOut("Call", 235, "connection closed", <<>>))
         /\ UNCHANGED chans
    ELSE /\ chans' = [chans EXCEPT ![t].buf = <<>>]
         /\ IF Head(chans[t].buf).json
              THEN Returns(t, MkOut("Call", 241, "nil", chans[t].buf))
              ELSE Returns(t, MkOut("Call", 239, "unmarshal error", <<>>))

\* Call, lines 224-227: the select is entered.  A ready case is taken (either
\* one when both are ready); with none ready the task parks.
CallSelect(t, br) ==
  /\ Alive /\ pc[t] = "call_select"
  /\ \/ br = "ctx" /\ Goto(t, "call_timeout") /\ UNCHANGED <<out, lc, chans>>
     \/ br = "ch" /\ ChanReady(t) /\ Receive(t)
     \/ br = "park" /\ ~ChanReady(t) /\ Goto(t, "call_parked") /\ UNCHANGED <<out, lc, chans>>
  /\ UNCHANGED <<call, afterClose, loop, connVars, pending, subVars, closed,
                 closeReturned, panicked>>
  /\ UNCHANGED devVars

\* The timeout or the caller's context ends while the task is parked: the
\* select wakes on ctx.Done().
CallCtxDone(t) ==
  /\ Alive /\ pc[t] = "call_parked"
  /\ Goto(t, "call_timeout")
  /\ UNCHANGED <<lc, taskVars, loop, connVars, callVars, subVars, closed,
                 closeReturned, panicked>>
  /\ UNCHANGED devVars

\* Call's ctx.Done() case without the delete of lines 229-231.
CallTimeoutKeepEntry(t) ==
  /\ Alive /\ pc[t] = "call_timeout"
  /\ Returns(t, MkOut("Call", 232, "context done", <<>>))
  /\ UNCHANGED <<afterClose, loop, connVars, callVars, subVars, closed,
                 closeReturned, panicked>>
  /\ UNCHANGED devVars

\* The timeout that gives up on the whole table: it empties b.pending
\* instead of deleting its own id.
CallTimeoutClearsTable(t) ==
  /\ Alive /\ pc[t] = "call_timeout"
  /\ pending' = EmptyMap
  /\ Returns(t, MkOut("Call", 232, "context done", <<>>))
  /\ UNCHANGED <<call, afterClose, loop, connVars, chans, subVars, closed,
                 closeReturned, panicked>>
  /\ UNCHANGED devVars

\* Call, lines 228-232: deregister and return ctx.Err().
CallTimeout(t) ==
  /\ Alive /\ pc[t] = "call_timeout"
  /\ pending' = Delete(pending, NewId(t))
  /\ Returns(t, MkOut("Call", 232, "context done", <<>>))
  /\ UNCHANGED <<call, afterClose, loop, connVars, chans, subVars, closed,
                 closeReturned, panicked>>
  /\ UNCHANGED devVars

\* Call, lines 233-241, for a task that was parked and woken on ch.
CallRecv(t) ==
  /\ Alive /\ pc[t] = "call_recv"
  /\ Receive(t)
  /\ UNCHANGED <<call, afterClose, loop, connVars, pending, subVars, closed,
                 closeReturned, panicked>>
  /\ UNCHANGED devVars

\* ------------------------------------------------------------- Subscribe
Buffers == 1..MaxBuf

\* Subscribe, lines 246-252.
Subscribe(t, buffer) ==
  /\ Alive /\ pc[t] = "idle"
  /\ Len(subs) < MaxSubs
  /\ Invoke(t)
  /\ subs' = Append(subs, [buf |-> <<>>, cap |-> buffer, closed |-> FALSE])
  /\ listeners' = Append(listeners, Len(subs) + 1)
  /\ out' = [out EXCEPT ![t] = MkOut("Subscribe", 251, "nil", <<>>)]
  /\ UNCHANGED <<pc, lc, loop, connVars, callVars, closed, closeReturned,
                 panicked>>
  /\ UNCHANGED devVars

\* blizzardEventSub.Close without closeOnce: every call runs close(e.ch), and
\* closing a closed channel panics.
SubCloseEveryTime(t, s) ==
  /\ Alive /\ pc[t] = "idle"
  /\ s \in DOMAIN subs
  /\ IF subs[s].closed
       THEN /\ panicked' = "close of closed channel: es.ch"
            /\ UNCHANGED <<subs, out>>
       ELSE /\ subs' = [subs EXCEPT ![s].closed = TRUE]
            /\ out' = [out EXCEPT ![t] = MkOut("SubClose", 54, "nil", <<>>)]
            /\ UNCHANGED panicked
  /\ UNCHANGED <<pc, lc, afterClose, loop, connVars, callVars, listeners,
                 closed, closeReturned>>
  /\ UNCHANGED devVars

\* blizzardEventSub.Close, line 54: closeOnce closes the channel once.
SubClose(t, s) ==
  /\ Alive /\ pc[t] = "idle"
  /\ s \in DOMAIN subs
  /\ subs' = [subs EXCEPT ![s].closed = TRUE]
  /\ out' = [out EXCEPT ![t] = MkOut("SubClose", 54, "nil", <<>>)]
  /\ UNCHANGED <<pc, lc, afterClose, loop, connVars, callVars, listeners,
                 closed, closeReturned, panicked>>
  /\ UNCHANGED devVars

\* The consumer of a subscription receives from C(), line 53.
SubRecv(s) ==
  /\ Alive
  /\ s \in DOMAIN subs /\ subs[s].buf # <<>>
  /\ subs' = [subs EXCEPT ![s].buf = Tail(@)]
  /\ UNCHANGED <<pc, lc, taskVars, loop, connVars, callVars, listeners, closed,
                 closeReturned, panicked>>
  /\ UNCHANGED devVars

\* ------------------------------------------------------------- broadcast
\* Where the read loop goes on after a broadcast: to the reconnect (line 289),
\* to Close (line 305), to the next read (line 334).
AfterBroadcast(site) ==
  CASE site = "retry" -> "rl_dial"
    [] site = "final" -> "rl_close"
    [] OTHER -> "rl_read"

\* The read loop calls broadcast(evt) from call site `site`.
CallBroadcast(l, site, evt) == [loop[l] EXCEPT !.site = site, !.evt = <<evt>>]

\* broadcast, lines 255-259: return at once when b.closed is closed.
BroadcastCheck(l) ==
  /\ Alive /\ pc[l] = "bc_check"
  /\ IF closed
       THEN /\ Goto(l, AfterBroadcast(loop[l].site))
            /\ loop' = [loop EXCEPT ![l].site = "none", ![l].evt = <<>>]
       ELSE Goto(l, "bc_snap") /\ UNCHANGED loop
  /\ UNCHANGED <<lc, taskVars, connVars, callVars, subVars, closed, closeReturned,
                 panicked>>
  /\ UNCHANGED devVars

\* broadcast, lines 260-262: copy b.listeners under listenersMu.
BroadcastSnap(l) ==
  /\ Alive /\ pc[l] = "bc_snap"
  /\ loop' = [loop EXCEPT ![l].snap = listeners]
  /\ Goto(l, "bc_send")
  /\ UNCHANGED <<lc, taskVars, connVars, callVars, subVars, closed, closeReturned,
                 panicked>>
  /\ UNCHANGED devVars

\* A send that makes room in a full buffer by discarding its oldest event.
TrySendDropsOldest(es, evt) ==
  IF Len(es.buf) < es.cap THEN [es EXCEPT !.buf = Append(@, evt)]
  ELSE [es EXCEPT !.buf = Append(Tail(@), evt)]

\* A send that puts the event at the head of the buffer, before the events
\* already waiting there.
TrySendAtHead(es, evt) ==
  IF Len(es.buf) < es.cap THEN [es EXCEPT !.buf = <<evt>> \o @] ELSE es

\* One non-blocking send, lines 267-270: enqueue when the buffer has room,
\* drop when it is full.
TrySend(es, evt) ==
  IF Len(es.buf) < es.cap THEN [es EXCEPT !.buf = Append(@, evt)] ELSE es

\* The subscriptions after the sends to the first n entries of the copy.
RECURSIVE SendAll(_, _, _, _)
SendAll(ss, snap, n, evt) ==
  IF n = 0 THEN ss
  ELSE LET prev == SendAll(ss, snap, n - 1, evt)
       IN [prev EXCEPT ![snap[n]] = TrySend(prev[snap[n]], evt)]

\* broadcast, lines 263-271: the sends to the copied listeners; a send on a
\* closed channel panics.
BroadcastSend(l) ==
  /\ Alive /\ pc[l] = "bc_send"
  /\ LET snap == loop[l].snap
     IN IF \E n \in DOMAIN snap : subs[snap[n]].closed
          THEN /\ panicked' = "send on closed channel: es.ch"
               /\ UNCHANGED <<pc, loop, subs>>
          ELSE /\ subs' = SendAll(subs, snap, Len(snap), Head(loop[l].evt))
               /\ Goto(l, AfterBroadcast(loop[l].site))
               /\ loop' = [loop EXCEPT ![l].site = "none", ![l].evt = <<>>,
                                       ![l].snap = <<>>]
               /\ UNCHANGED panicked
  /\ UNCHANGED <<lc, taskVars, connVars, callVars, listeners, closed, closeReturned>>
  /\ UNCHANGED devVars

\* ------------------------------------------------------------- readLoop
\* readLoop, lines 275-281.
RLStart(l) ==
  /\ Alive /\ pc[l] = "rl_start"
  /\ lc' = [lc EXCEPT ![l] = conn]
  /\ Goto(l, IF conn = 0 THEN "exit" ELSE "rl_read")
  /\ UNCHANGED <<taskVars, loop, connVars, callVars, subVars, closed, closeReturned,
                 panicked>>
  /\ UNCHANGED devVars

\* The frames the server can send: a result or an error for any request id
\* that reached it, a notification, a frame with an id and a method only, an
\* object that is neither, bytes that are not JSON, and a result for an id
\* that was never requested.
WireIds == UNION {wire[h] : h \in DOMAIN wire}
\* An id no Call of this adapter ever generated.
UnknownId == NCallers + 1
ServerFrames ==
  {RespResult(i) : i \in WireIds} \cup {RespError(i) : i \in WireIds}
    \cup {IdMethod(i) : i \in WireIds} \cup {Notify, EmptyObj, Garbage}
    \cup {RespResult(UnknownId)}

\* The read loop that takes a frame of neither shape for a broken
\* connection: it goes to its fatal path as after a second read error.
RLReadMalformedFatal(l, f) ==
  /\ Alive /\ pc[l] = "rl_read"
  /\ handles[lc[l]]
  /\ f \in ServerFrames
  /\ IF IsResponse(f)
       THEN /\ loop' = [loop EXCEPT ![l].data = <<f>>]
            /\ Goto(l, "rl_lookup")
       ELSE IF IsNotification(f)
       THEN /\ loop' = [loop EXCEPT ![l] =
                 CallBroadcast(l, "note", MkEvent("notification", <<f>>, ""))]
            /\ Goto(l, "bc_check")
       ELSE /\ loop' = [loop EXCEPT ![l] =
                 CallBroadcast(l, "final", MkEvent("offline", <<>>, "read error"))]
            /\ Goto(l, "bc_check")
  /\ UNCHANGED <<lc, taskVars, connVars, callVars, subVars, closed, closeReturned,
                 panicked>>
  /\ UNCHANGED devVars

\* readLoop, lines 283 and 308-333: ReadMessage returns frame f from an open
\* handle and the frame is classified.  A response goes on to the lookup, a
\* notification to broadcast, any other frame is dropped.
RLRead(l, f) ==
  /\ Alive /\ pc[l] = "rl_read"
  /\ handles[lc[l]]
  /\ f \in ServerFrames
  /\ IF IsResponse(f)
       THEN /\ loop' = [loop EXCEPT ![l].data = <<f>>]
            /\ Goto(l, "rl_lookup")
       ELSE IF IsNotification(f)
       THEN /\ loop' = [loop EXCEPT ![l] =
                 CallBroadcast(l, "note", MkEvent("notification", <<f>>, ""))]
            /\ Goto(l, "bc_check")
       ELSE UNCHANGED <<loop, pc>>
  /\ UNCHANGED <<lc, taskVars, connVars, callVars, subVars, closed, closeReturned,
                 panicked>>
  /\ UNCHANGED devVars

\* readLoop's error path without the test of retried at line 285: every read
\* failure earns a reconnect.
RLReadErrAlwaysRetry(l) ==
  /\ Alive /\ pc[l] = "rl_read"
  /\ loop' = [loop EXCEPT ![l] =
       [CallBroadcast(l, "retry", MkEvent("offline", <<>>, "read error, retrying once"))
          EXCEPT !.retried = TRUE]]
  /\ Goto(l, "bc_check")
  /\ UNCHANGED <<lc, taskVars, connVars, callVars, subVars, closed, closeReturned,
                 panicked>>
  /\ UNCHANGED devVars

\* readLoop's error path with the broadcasts left out: the first failure goes
\* straight to the reconnect, a later one straight to Close.
RLReadErrSilent(l) ==
  /\ Alive /\ pc[l] = "rl_read"
  /\ IF ~loop[l].retried
       THEN /\ loop' = [loop EXCEPT ![l].retried = TRUE]
            /\ Goto(l, "rl_dial")
       ELSE /\ Goto(l, "rl_close")
            /\ UNCHANGED loop
  /\ UNCHANGED <<lc, taskVars, connVars, callVars, subVars, closed, closeReturned,
                 panicked>>
  /\ UNCHANGED devVars

\* readLoop, lines 283-287 and 304: ReadMessage returns an error (the handle
\* was closed, or the connection failed).  The first one broadcasts Offline
\* and goes on to reconnect; a later one broadcasts Offline and closes.
RLReadErr(l) ==
  /\ Alive /\ pc[l] = "rl_read"
  /\ IF ~loop[l].retried
       THEN loop' = [loop EXCEPT ![l] =
              [CallBroadcast(l, "retry", MkEvent("offline", <<>>, "read error, retrying once"))
                 EXCEPT !.retried = TRUE]]
       ELSE loop' = [loop EXCEPT ![l] =
              CallBroadcast(l, "final", MkEvent("offline", <<>>, "read error"))]
  /\ Goto(l, "bc_check")
  /\ UNCHANGED <<lc, taskVars, connVars, callVars, subVars, closed, closeReturned,
                 panicked>>
  /\ UNCHANGED devVars

\* The redial whose failure makes the read loop return at once, without the
\* broadcast and the Close of lines 304-305.
RLDialFailureReturns(l, ok) ==
  /\ Alive /\ pc[l] = "rl_dial"
  /\ ok => Len(handles) < MaxConns
  /\ IF ok
       THEN /\ handles' = Append(handles, TRUE)
            /\ wire' = Append(wire, {})
            /\ lc' = [lc EXCEPT ![l] = Len(handles) + 1]
            /\ Goto(l, "rl_install")
       ELSE /\ Goto(l, "exit")
            /\ UNCHANGED <<handles, wire, lc>>
  /\ UNCHANGED <<taskVars, loop, conn, callVars, subVars, closed, closeReturned, panicked>>
  /\ UNCHANGED devVars

\* readLoop line 291 and reconnect lines 139-153: after the sleep, the redial
\* returns.  A failed redial broadcasts Offline (line 304).
RLDial(l, ok) ==
  /\ Alive /\ pc[l] = "rl_dial"
  /\ ok => Len(handles) < MaxConns
  /\ IF ok
       THEN /\ handles' = Append(handles, TRUE)
            /\ wire' = Append(wire, {})
            /\ lc' = [lc EXCEPT ![l] = Len(handles) + 1]
            /\ Goto(l, "rl_install")
            /\ UNCHANGED loop
       ELSE /\ loop' = [loop EXCEPT ![l] =
                 CallBroadcast(l, "final", MkEvent("offline", <<>>, "read error"))]
            /\ Goto(l, "bc_check")
            /\ UNCHANGED <<handles, wire, lc>>
  /\ UNCHANGED <<taskVars, conn, callVars, subVars, closed, closeReturned, panicked>>
  /\ UNCHANGED devVars

\* reconnect without the assignment of line 158: the installed handle is
\* closed and stays installed.
RLInstallKeepsOld(l) ==
  /\ Alive /\ pc[l] = "rl_install"
  /\ handles' = IF conn # 0 THEN [handles EXCEPT ![conn] = FALSE] ELSE handles
  /\ Goto(l, "rl_reload")
  /\ UNCHANGED <<lc, taskVars, loop, conn, wire, callVars, subVars, closed,
                 closeReturned, panicked>>
  /\ UNCHANGED devVars

\* reconnect that, besides swapping the handle, fails the calls written to
\* the old one: it closes and removes every pending entry.
RLInstallDrainsPending(l) ==
  /\ Alive /\ pc[l] = "rl_install"
  /\ handles' = IF conn # 0 THEN [handles EXCEPT ![conn] = FALSE] ELSE handles
  /\ conn' = lc[l]
  /\ LET ks == {pending[i] : i \in DOMAIN pending}
     IN /\ chans' = [k \in DOMAIN chans |->
                       IF k \in ks THEN [chans[k] EXCEPT !.closed = TRUE] ELSE chans[k]]
        /\ pc' = [Woken(ks) EXCEPT ![l] = "rl_reload"]
  /\ pending' = EmptyMap
  /\ UNCHANGED <<call, lc, taskVars, loop, wire, subVars, closed, closeReturned, panicked>>
  /\ UNCHANGED devVars

\* reconnect, lines 154-160: under connMu close the installed handle, if any,
\* and install the new one.
RLInstall(l) ==
  /\ Alive /\ pc[l] = "rl_install"
  /\ handles' = IF conn # 0 THEN [handles EXCEPT ![conn] = FALSE] ELSE handles
  /\ conn' = lc[l]
  /\ Goto(l, "rl_reload")
  /\ UNCHANGED <<lc, taskVars, loop, wire, callVars, subVars, closed, closeReturned,
                 panicked>>
  /\ UNCHANGED devVars

\* readLoop, lines 293-300: read b.conn again; nil closes and returns.
RLReload(l) ==
  /\ Alive /\ pc[l] = "rl_reload"
  /\ lc' = [lc EXCEPT ![l] = conn]
  /\ Goto(l, IF conn = 0 THEN "rl_close" ELSE "rl_read")
  /\ UNCHANGED <<taskVars, loop, connVars, callVars, subVars, closed, closeReturned,
                 panicked>>
  /\ UNCHANGED devVars

\* readLoop's lookup matching by arrival order: the response is handed to the
\* oldest pending entry, whatever its id.
RLLookupOldestEntry(l) ==
  /\ Alive /\ pc[l] = "rl_lookup"
  /\ IF DOMAIN pending # {}
       THEN LET i == CHOOSE x \in DOMAIN pending : \A y \in DOMAIN pending : x <= y
            IN /\ pending' = Delete(pending, i)
               /\ loop' = [loop EXCEPT ![l].ch = pending[i]]
               /\ Goto(l, "rl_deliver")
       ELSE /\ loop' = [loop EXCEPT ![l].data = <<>>]
            /\ Goto(l, "rl_read")
            /\ UNCHANGED pending
  /\ UNCHANGED <<call, lc, taskVars, connVars, chans, subVars, closed, closeReturned,
                 panicked>>
  /\ UNCHANGED devVars

\* readLoop's lookup without the delete of line 314: the entry found stays in
\* the table.
RLLookupKeepEntry(l) ==
  /\ Alive /\ pc[l] = "rl_lookup"
  /\ LET f == Head(loop[l].data)
     IN IF f.id \in DOMAIN pending
          THEN /\ loop' = [loop EXCEPT ![l].ch = pending[f.id]]
               /\ Goto(l, "rl_deliver")
          ELSE /\ loop' = [loop EXCEPT ![l].data = <<>>]
               /\ Goto(l, "rl_read")
  /\ UNCHANGED <<lc, taskVars, connVars, callVars, subVars, closed, closeReturned,
                 panicked>>
  /\ UNCHANGED devVars

\* readLoop's lookup without the continue of line 325 for an id not found:
\* the frame falls through to the notification path and is published.
RLLookupOrphanPublished(l) ==
  /\ Alive /\ pc[l] = "rl_lookup"
  /\ LET f == Head(loop[l].data)
     IN IF f.id \in DOMAIN pending
          THEN /\ pending' = Delete(pending, f.id)
               /\ loop' = [loop EXCEPT ![l].ch = pending[f.id]]
               /\ Goto(l, "rl_deliver")
          ELSE /\ loop' = [loop EXCEPT ![l] =
                    [CallBroadcast(l, "note", MkEvent("notification", <<f>>, ""))
                       EXCEPT !.data = <<>>]]
               /\ Goto(l, "bc_check")
               /\ UNCHANGED pending
  /\ UNCHANGED <<call, lc, taskVars, connVars, chans, subVars, closed, closeReturned,
                 panicked>>
  /\ UNCHANGED devVars

\* readLoop, lines 311-316 and 325: under pendingMu look the response's id up
\* and remove the entry found; an id not found goes on to the next read.
RLLookup(l) ==
  /\ Alive /\ pc[l] = "rl_lookup"
  /\ LET f == Head(loop[l].data)
     IN IF f.id \in DOMAIN pending
          THEN /\ pending' = Delete(pending, f.id)
               /\ loop' = [loop EXCEPT ![l].ch = pending[f.id]]
               /\ Goto(l, "rl_deliver")
          ELSE /\ loop' = [loop EXCEPT ![l].data = <<>>]
               /\ Goto(l, "rl_read")
               /\ UNCHANGED pending
  /\ UNCHANGED <<call, lc, taskVars, connVars, chans, subVars, closed, closeReturned,
                 panicked>>
  /\ UNCHANGED devVars

\* The delivery as a plain send `ch <- data` on an unbuffered channel: it
\* waits until the caller is receiving in its select.
RLDeliverRendezvous(l) ==
  /\ Alive /\ pc[l] = "rl_deliver"
  /\ LET k == loop[l].ch
     IN /\ pc[k] = "call_parked"
        /\ chans' = [chans EXCEPT ![k] =
                       [buf |-> Append(@.buf, Head(loop[l].data)), closed |-> TRUE,
                        sent |-> @.sent + 1]]
        /\ pc' = [Woken({k}) EXCEPT ![l] = "rl_read"]
        /\ loop' = [loop EXCEPT ![l].data = <<>>, ![l].ch = 0]
  /\ UNCHANGED <<call, lc, taskVars, connVars, pending, subVars, closed, closeReturned,
                 panicked>>
  /\ UNCHANGED devVars

\* readLoop, lines 317-325: the non-blocking send of the frame to the channel
\* found, then close(ch).
RLDeliver(l) ==
  /\ Alive /\ pc[l] = "rl_deliver"
  /\ LET k == loop[l].ch
     IN IF chans[k].closed
          THEN /\ panicked' = "send on closed channel: pending"
               /\ UNCHANGED <<pc, loop, chans>>
          ELSE /\ chans' = [chans EXCEPT ![k] =
                    IF Len(@.buf) < 1
                      THEN [buf |-> Append(@.buf, Head(loop[l].data)), closed |-> TRUE,
                            sent |-> @.sent + 1]
                      ELSE [@ EXCEPT !.closed = TRUE]]
               /\ pc' = [Woken({k}) EXCEPT ![l] = "rl_read"]
               /\ loop' = [loop EXCEPT ![l].data = <<>>, ![l].ch = 0]
               /\ UNCHANGED panicked
  /\ UNCHANGED <<call, lc, taskVars, connVars, pending, subVars, closed, closeReturned>>
  /\ UNCHANGED devVars

Next ==
  \/ \E t \in Users, ok \in BOOLEAN : ConnectDial(t, ok)
  \/ \E t \in Users : ConnectInstall(t)
  \/ \E p \in Users \cup Loops : CloseCheck(p)
  \/ \E p \in Users \cup Loops : CloseFlag(p)
  \/ \E p \in Users \cup Loops : CloseConn(p)
  \/ \E p \in Users \cup Loops : CloseTransport(p)
  \/ \E p \in Users \cup Loops : CloseDrain(p)
  \/ \E p \in Users \cup Loops : CloseListeners(p)
  \/ \E t \in Callers, m \in Methods, d \in Timeouts, ok \in BOOLEAN : CallStart(t, m, d, ok)
  \/ \E t \in Callers : CallReadConn(t)
  \/ \E t \in Callers, ok \in BOOLEAN : CallWriteEnd(t, ok)
  \/ \E t \in Callers : CallWriteErr(t)
  \/ \E t \in Callers, br \in {"ctx", "ch", "park"} : CallSelect(t, br)
  \/ \E t \in Callers : CallCtxDone(t)
  \/ \E t \in Callers : CallTimeout(t)
  \/ \E t \in Callers : CallRecv(t)
  \/ \E t \in Users, n \in Buffers : Subscribe(t, n)
  \/ \E t \in Users, s \in 1..MaxSubs : SubClose(t, s)
  \/ \E s \in 1..MaxSubs : SubRecv(s)
  \/ \E l \in Loops : BroadcastCheck(l)
  \/ \E l \in Loops : BroadcastSnap(l)
  \/ \E l \in Loops : BroadcastSend(l)
  \/ \E l \in Loops : RLStart(l)
  \/ \E l \in Loops, f \in ServerFrames : RLRead(l, f)
  \/ \E l \in Loops : RLReadErr(l)
  \/ \E l \in Loops, ok \in BOOLEAN : RLDial(l, ok)
  \/ \E l \in Loops : RLInstall(l)
  \/ \E l \in Loops : RLReload(l)
  \/ \E l \in Loops : RLLookup(l)
  \/ \E l \in Loops : RLDeliver(l)

Spec == Init /\ [][Next]_vars

\* ------------------------------------------------------------- scenarios
\* The frames of a server that answers requests, sends notifications, bytes
\* that are not JSON and a response nobody asked for.
PlainFrames == {RespResult(i) : i \in WireIds} \cup {RespError(i) : i \in WireIds}
                 \cup {Notify, Garbage, RespResult(UnknownId)}

\* The actions of one task or loop inside Close.
CloseSteps(p) ==
  \/ CloseCheck(p)
  \/ CloseFlag(p)
  \/ CloseConn(p)
  \/ CloseTransport(p)
  \/ CloseDrain(p)
  \/ CloseListeners(p)

\* The read loop and its broadcasts, reading frames of the set fs.
LoopSteps(l, fs) ==
  \/ BroadcastCheck(l)
  \/ BroadcastSnap(l)
  \/ BroadcastSend(l)
  \/ RLStart(l)
  \/ \E f \in fs : RLRead(l, f)
  \/ RLReadErr(l)
  \/ \E ok \in BOOLEAN : RLDial(l, ok)
  \/ RLInstall(l)
  \/ RLReload(l)
  \/ RLLookup(l)
  \/ RLDeliver(l)

\* The actions of one caller inside a Call with a method and marshalable
\* parameters.
CallSteps(t) ==
  \/ CallStart(t, "ping", 0, TRUE)
  \/ CallReadConn(t)
  \/ \E ok \in BOOLEAN : CallWriteEnd(t, ok)
  \/ CallWriteErr(t)
  \/ \E br \in {"ctx", "ch", "park"} : CallSelect(t, br)
  \/ CallCtxDone(t)
  \/ CallTimeout(t)
  \/ CallRecv(t)

\* Calls on an adapter that is connected at most once, before it is closed:
\* the callers issue Calls concurrently while a user connects and closes and
\* the read loop reads, reconnects and closes; nobody subscribes.
NextCalls ==
  \/ \E t \in Users, ok \in BOOLEAN : handles = <<>> /\ ~closed /\ ConnectDial(t, ok)
  \/ \E t \in Users : ConnectInstall(t)
  \/ \E p \in Users \cup Loops : CloseSteps(p)
  \/ \E t \in Callers : CallSteps(t)
  \/ \E l \in Loops : LoopSteps(l, PlainFrames)

SpecCalls == Init /\ [][NextCalls]_vars

\* The adapter's life cycle without Calls: users connect, subscribe, close
\* subscriptions and close the adapter while read loops run and consumers
\* receive.
NextLifecycle ==
  \/ \E t \in Users, ok \in BOOLEAN : ConnectDial(t, ok)
  \/ \E t \in Users : ConnectInstall(t)
  \/ \E p \in Users \cup Loops : CloseSteps(p)
  \/ \E t \in Users, n \in Buffers : Subscribe(t, n)
  \/ \E t \in Users, s \in 1..MaxSubs : SubClose(t, s)
  \/ \E s \in 1..MaxSubs : SubRecv(s)
  \/ \E l \in Loops : LoopSteps(l, PlainFrames)

SpecLifecycle == Init /\ [][NextLifecycle]_vars

\* Calls and subscriptions on an adapter that is connected once and closed
\* only by its read loop: the user connects and subscribes, consumers
\* receive, callers issue Calls, and the read loop reads, fails, reconnects
\* and takes its fatal path.
NextReconnect ==
  \/ \E t \in Users, ok \in BOOLEAN : handles = <<>> /\ ConnectDial(t, ok)
  \/ \E t \in Users : ConnectInstall(t)
  \/ \E t \in Users, n \in Buffers : Subscribe(t, n)
  \/ \E s \in 1..MaxSubs : SubRecv(s)
  \/ \E l \in Loops : CloseSteps(l)
  \/ \E t \in Callers : CallSteps(t)
  \/ \E l \in Loops : LoopSteps(l, PlainFrames)

SpecReconnect == Init /\ [][NextReconnect]_vars

\* Calls on an adapter whose network never fails by itself: ReadMessage
\* returns an error only when the handle it reads has been closed, which Close
\* (line 176) and reconnect (line 156) alone do.
NextShutdown ==
  \/ \E t \in Users, ok \in BOOLEAN : handles = <<>> /\ ~closed /\ ConnectDial(t, ok)
  \/ \E t \in Users : ConnectInstall(t)
  \/ \E p \in Users \cup Loops : CloseSteps(p)
  \/ \E t \in Callers : CallSteps(t)
  \/ \E l \in Loops : BroadcastCheck(l)
  \/ \E l \in Loops : BroadcastSnap(l)
  \/ \E l \in Loops : BroadcastSend(l)
  \/ \E l \in Loops : RLStart(l)
  \/ \E l \in Loops, f \in PlainFrames : RLRead(l, f)
  \/ \E l \in Loops : lc[l] # 0 /\ ~handles[lc[l]] /\ RLReadErr(l)
  \/ \E l \in Loops, ok \in BOOLEAN : RLDial(l, ok)
  \/ \E l \in Loops : RLInstall(l)
  \/ \E l \in Loops : RLReload(l)
  \/ \E l \in Loops : RLLookup(l)
  \/ \E l \in Loops : RLDeliver(l)

SpecShutdown == Init /\ [][NextShutdown]_vars

\* Calls with every kind of argument on an adapter that is connected once and
\* whose server answers: empty and non-empty methods, negative, zero and
\* positive timeouts, parameters that marshal and that do not.
NextArgs ==
  \/ \E t \in Users, ok \in BOOLEAN : handles = <<>> /\ ConnectDial(t, ok)
  \/ \E t \in Users : ConnectInstall(t)
  \/ \E t \in Callers, m \in Methods, d \in Timeouts, ok \in BOOLEAN : CallStart(t, m, d, ok)
  \/ \E t \in Callers : CallReadConn(t)
  \/ \E t \in Callers, ok \in BOOLEAN : CallWriteEnd(t, ok)
  \/ \E t \in Callers : CallWriteErr(t)
  \/ \E t \in Callers, br \in {"ctx", "ch", "park"} : CallSelect(t, br)
  \/ \E t \in Callers : CallCtxDone(t)
  \/ \E t \in Callers : CallTimeout(t)
  \/ \E t \in Callers : CallRecv(t)
  \/ \E l \in Loops : RLStart(l)
  \/ \E l \in Loops, i \in WireIds : RLRead(l, RespResult(i))
  \/ \E l \in Loops : RLLookup(l)
  \/ \E l \in Loops : RLDeliver(l)

SpecArgs == Init /\ [][NextArgs]_vars

\* Calls and subscriptions on an adapter that is connected once and never
\* closed, whose transport never fails and whose server sends every frame of
\* ServerFrames.
NextFrames ==
  \/ \E t \in Users, ok \in BOOLEAN : handles = <<>> /\ ConnectDial(t, ok)
  \/ \E t \in Users : ConnectInstall(t)
  \/ \E t \in Users, n \in Buffers : Subscribe(t, n)
  \/ \E s \in 1..MaxSubs : SubRecv(s)
  \/ \E t \in Callers : CallSteps(t)
  \/ \E l \in Loops : BroadcastCheck(l)
  \/ \E l \in Loops : BroadcastSnap(l)
  \/ \E l \in Loops : BroadcastSend(l)
  \/ \E l \in Loops : RLStart(l)
  \/ \E l \in Loops, f \in ServerFrames : RLRead(l, f)
  \/ \E l \in Loops : RLLookup(l)
  \/ \E l \in Loops : RLDeliver(l)

SpecFrames == Init /\ [][NextFrames]_vars

\* The frames that pass neither of readLoop's tests: an object without id,
\* method, result and error, and bytes that are not JSON.
DroppedFrames == {f \in {EmptyObj, Garbage} : ~IsResponse(f) /\ ~IsNotification(f)}

\* Calls and a subscription on an adapter that is connected once and never
\* closed, whose transport never fails and whose server sends nothing but
\* frames of neither shape.
NextMalformed ==
  \/ \E t \in Users, ok \in BOOLEAN : handles = <<>> /\ ConnectDial(t, ok)
  \/ \E t \in Users : ConnectInstall(t)
  \/ \E t \in Users, n \in Buffers : Subscribe(t, n)
  \/ \E t \in Callers : CallStart(t, "ping", 0, TRUE)
  \/ \E t \in Callers : CallReadConn(t)
  \/ \E t \in Callers, ok \in BOOLEAN : CallWriteEnd(t, ok)
  \/ \E t \in Callers : CallWriteErr(t)
  \/ \E t \in Callers, br \in {"ctx", "park"} : CallSelect(t, br)
  \/ \E t \in Callers : CallCtxDone(t)
  \/ \E t \in Callers : CallTimeout(t)
  \/ \E l \in Loops : RLStart(l)
  \/ \E l \in Loops, f \in DroppedFrames : RLRead(l, f)

SpecMalformed == Init /\ [][NextMalformed]_vars

\* The buffer size of the subscriptions in the scenario below.
MaxQueue == 2

\* Subscriptions with room for several events on an adapter that is connected
\* once and closed only by its read loop: subscribers come and go on
\* receiving while the read loop publishes notifications and Offline events,
\* reconnects and takes its fatal path.
NextOrder ==
  \/ \E t \in Users, ok \in BOOLEAN : handles = <<>> /\ ConnectDial(t, ok)
  \/ \E t \in Users : ConnectInstall(t)
  \/ \E t \in Users : Subscribe(t, MaxQueue)
  \/ \E s \in 1..MaxSubs : SubRecv(s)
  \/ \E l \in Loops : CloseSteps(l)
  \/ \E l \in Loops : BroadcastCheck(l)
  \/ \E l \in Loops : BroadcastSnap(l)
  \/ \E l \in Loops : BroadcastSend(l)
  \/ \E l \in Loops : RLStart(l)
  \/ \E l \in Loops : RLRead(l, Notify)
  \/ \E l \in Loops : RLReadErr(l)
  \/ \E l \in Loops, ok \in BOOLEAN : RLDial(l, ok)
  \/ \E l \in Loops : RLInstall(l)
  \/ \E l \in Loops : RLReload(l)

SpecOrder == Init /\ [][NextOrder]_vars

\* ------------------------------------------------------------- locks
\* The operations at the grain of their Lock and Unlock calls.  A position
\* "Ln" is a task about to execute line n of part_002; the positions of
\* broadcast carry the line it was called from.  An edge is one statement:
\*   call, step, go   plain statements (go starts the read loop);
\*   lock, rlock      Lock / RLock of the mutex named;
\*   unlock, runlock  the critical section, ending in Unlock / RUnlock;
\*   dial, read, write, select, deliver, push
\*                    the operations that can wait for the peer or for
\*                    another task;
\*   tclose           Close of a transport handle.
E(f, t, k, m) == [from |-> f, to |-> t, kind |-> k, lock |-> m]

\* Connect, lines 126-134.
ConnectProg ==
  { E("idle", "L126", "call", "none"),
    E("L126", "idle", "dial", "none"), E("L126", "L130", "dial", "none"),
    E("L130", "L131", "lock", "connMu"), E("L131", "L133", "unlock", "connMu"),
    E("L133", "idle", "go", "none") }

\* Close, lines 165-187, returning to position ret.
CloseProg(ret) ==
  { E("L165", ret, "step", "none"), E("L165", "L170", "step", "none"),
    E("L170", "L171", "lock", "connMu"), E("L171", "L174", "unlock", "connMu"),
    E("L174", "L178", "tclose", "none"), E("L174", "L178", "step", "none"),
    E("L178", "L179", "lock", "pendingMu"), E("L179", "L184", "unlock", "pendingMu"),
    E("L184", "L185", "lock", "listenersMu"), E("L185", "L187", "unlock", "listenersMu"),
    E("L187", ret, "step", "none") }

\* Call, lines 192-241.
CallProg ==
  { E("idle", "L207", "call", "none"),
    E("L207", "L208", "lock", "pendingMu"), E("L208", "L211", "unlock", "pendingMu"),
    E("L211", "L212", "rlock", "connMu"), E("L212", "L214", "runlock", "connMu"),
    E("L214", "done", "step", "none"), E("L214", "L217", "step", "none"),
    E("L217", "L219", "write", "none"), E("L217", "L227", "write", "none"),
    E("L219", "L220", "lock", "pendingMu"), E("L220", "done", "unlock", "pendingMu"),
    E("L227", "L229", "select", "none"), E("L227", "done", "select", "none"),
    E("L229", "L230", "lock", "pendingMu"), E("L230", "done", "unlock", "pendingMu") }

\* Subscribe, lines 247-251.
SubscribeProg ==
  { E("idle", "L248", "call", "none"),
    E("L248", "L249", "lock", "listenersMu"), E("L249", "idle", "unlock", "listenersMu") }

\* broadcast with the sends inside the read lock.
BroadcastProgLocked(x, ret) ==
  { E(x[1], ret, "step", "none"), E(x[1], x[2], "step", "none"),
    E(x[2], x[3], "rlock", "listenersMu"), E(x[3], x[4], "push", "none"),
    E(x[4], ret, "runlock", "listenersMu") }

\* broadcast, lines 255-271, called at the positions named in x and returning
\* to ret: the copy is taken under the read lock, the sends come after it.
BroadcastProg(x, ret) ==
  { E(x[1], ret, "step", "none"), E(x[1], x[2], "step", "none"),
    E(x[2], x[3], "rlock", "listenersMu"), E(x[3], x[4], "runlock", "listenersMu"),
    E(x[4], ret, "push", "none") }

\* reconnect, lines 150-160, called at line 291.
ReconnectProg ==
  { E("L150", "L304", "dial", "none"), E("L150", "L154", "dial", "none"),
    E("L154", "L155", "lock", "connMu"),
    E("L155", "L158", "tclose", "none"), E("L155", "L158", "step", "none"),
    E("L158", "L292", "unlock", "connMu") }

\* readLoop, lines 275-333, with its broadcasts, its reconnect and its Close.
ReadLoopProg ==
  { E("L275", "L276", "rlock", "connMu"), E("L276", "L278", "runlock", "connMu"),
    E("L278", "exit", "step", "none"), E("L278", "L283", "step", "none"),
    E("L283", "L285", "read", "none"), E("L283", "L310", "read", "none"),
    E("L285", "L287", "step", "none"), E("L285", "L304", "step", "none"),
    E("L289", "L150", "step", "none"),
    E("L292", "L293", "rlock", "connMu"), E("L293", "L295", "runlock", "connMu"),
    E("L295", "L165", "step", "none"), E("L295", "L283", "step", "none"),
    E("L305", "L165", "step", "none"),
    E("L310", "L311", "step", "none"), E("L310", "L329", "step", "none"),
    E("L311", "L312", "lock", "pendingMu"), E("L312", "L317", "unlock", "pendingMu"),
    E("L317", "L283", "deliver", "none"), E("L317", "L283", "step", "none"),
    E("L329", "L283", "step", "none"), E("L329", "L333", "step", "none") }
  \cup BroadcastProg(<<"L287", "L287_260", "L287_261", "L287_263">>, "L289")
  \cup BroadcastProg(<<"L304", "L304_260", "L304_261", "L304_263">>, "L305")
  \cup BroadcastProg(<<"L333", "L333_260", "L333_261", "L333_263">>, "L283")
  \cup ReconnectProg \cup CloseProg("exit")

\* The statements of each kind of task.
Prog(p) ==
  IF p \in Callers THEN CallProg
  ELSE IF p \in Users
    THEN ConnectProg \cup SubscribeProg \cup {E("idle", "L165", "call", "none")}
           \cup CloseProg("idle")
  ELSE ReadLoopProg

AllEdges == CallProg \cup Prog(NCallers + 1) \cup ReadLoopProg
Positions == {e.from : e \in AllEdges} \cup {e.to : e \in AllEdges} \cup {"unborn"}
Acquires == {"lock", "rlock"}
Releases == {"unlock", "runlock"}
\* The operations in which a task can wait for the peer or for another task.
Waits == {"dial", "read", "write", "select", "deliver", "push"}

\* The mutexes held at each position, as <<mutex, edge kind of the
\* acquisition>>: what an acquiring statement adds and every statement but
\* a releasing one passes on.
RECURSIVE HeldFrom(_)
HeldFrom(h) ==
  LET n == [x \in Positions |->
              h[x] \cup UNION { IF e.kind \in Acquires
                                   THEN h[e.from] \cup {<<e.lock, e.kind>>}
                                 ELSE IF e.kind \in Releases
                                   THEN {m \in h[e.from] : m[1] # e.lock}
                                 ELSE h[e.from] : e \in {d \in AllEdges : d.to = x} }]
  IN IF n = h THEN h ELSE HeldFrom(n)
Held == HeldFrom([x \in Positions |-> {}])

\* sync.RWMutex: Lock waits for every holder; RLock waits for a writer that
\* holds the mutex or is waiting for it.
CanTake(p, e) ==
  CASE e.kind = "lock" ->
         \A q \in Procs \ {p} : \A m \in Held[pc[q]] : m[1] # e.lock
    [] e.kind = "rlock" ->
         \A q \in Procs \ {p} :
           /\ <<e.lock, "lock">> \notin Held[pc[q]]
           /\ \A d \in Prog(q) : ~(d.from = pc[q] /\ d.kind = "lock" /\ d.lock = e.lock)
    [] OTHER -> TRUE

\* Task p executes statement e; `go b.readLoop()` starts the first read loop.
LockStep(p, e) ==
  /\ e \in Prog(p) /\ pc[p] = e.from
  /\ CanTake(p, e)
  /\ e.to = "L126" => pc[LoopOf(1)] = "unborn"
  /\ pc' = IF e.kind = "go"
             THEN [pc EXCEPT ![p] = e.to, ![LoopOf(1)] = "L275"]
             ELSE [pc EXCEPT ![p] = e.to]
  /\ UNCHANGED <<lc, taskVars, loop, connVars, callVars, subVars, closed, closeReturned,
                 panicked>>
  /\ UNCHANGED devVars

NextLocks == \E p \in Procs, e \in AllEdges : LockStep(p, e)

SpecLocks == Init /\ [][NextLocks]_vars

\* ------------------------------------------------------------- DeviceAdapter
(***************************************************************************)
(* DeviceAdapter (runtime/datamodel_adapter.go): PollOnce fetches the      *)
(* device list and emitDiff compares it with the ids of the last poll,     *)
(* under d.mu from its first line to its return.  One task polls; the      *)
(* subscribers receive and close without taking d.mu.  A broadcast is one  *)
(* step: its non-blocking sends go to different channels while d.mu keeps  *)
(* d.listeners fixed.                                                      *)
(***************************************************************************)
MaxIds == 2       \* longest device list a poll returns
MaxDevSubs == 2   \* DeviceAdapter.Subscribe invocations
MaxDevBuf == 1    \* largest DeviceAdapter.Subscribe buffer

DevIds == {"d1", "d2", "d3"}
\* The ids PollOnce extracts from a response body; an id may occur twice.
IdLists == UNION {[1..n -> DevIds] : n \in 0..MaxIds}
DevBuffers == 0..MaxDevBuf
\* The Event literals of emitDiff, without OccurredAt.
DevEvent(k, id) == [kind |-> k, device |-> id, source |-> "synthetic-poll"]
\* emitDiff's currSet: the keys inserted by the loop over current.
CurrSet(current) == {current[i] : i \in DOMAIN current}
\* make(chan devicemgr.Event, buffer) and the eventSub that wraps it.
NewEventSub(buffer) == [buf |-> <<>>, cap |-> buffer, closed |-> FALSE, closeFn |-> TRUE]

blizVars == <<pc, lc, taskVars, loop, connVars, callVars, subVars, closed, closeReturned>>

\* select { case ch <- e: default: } on an open channel.
DevTrySend(c, e) == IF Len(c.buf) < c.cap THEN [c EXCEPT !.buf = Append(@, e)] ELSE c
\* The listeners whose channel is closed.
ClosedAt == {i \in DOMAIN devListeners : devSubs[devListeners[i]].closed}
\* The first of them: the sends before it have happened when the send to it
\* panics.
FirstClosed == CHOOSE i \in ClosedAt : \A j \in ClosedAt : i <= j
Reached(n) == {devListeners[i] : i \in 1..n}

\* broadcast, lines 320-327.
DevBroadcast(e) ==
  /\ emitted' = Append(emitted, e)
  /\ IF ClosedAt = {}
       THEN /\ devSubs' = [s \in DOMAIN devSubs |->
                             IF s \in Reached(Len(devListeners))
                               THEN DevTrySend(devSubs[s], e) ELSE devSubs[s]]
            /\ UNCHANGED panicked
       ELSE /\ devSubs' = [s \in DOMAIN devSubs |->
                             IF s \in Reached(FirstClosed - 1)
                               THEN DevTrySend(devSubs[s], e) ELSE devSubs[s]]
            /\ panicked' = "send on closed channel: eventSub.ch"

\* PollOnce, lines 249-293, and emitDiff, lines 298-304: the request
\* succeeds and the body lists ids; emitDiff takes d.mu and builds currSet.
PollOnce(ids) ==
  /\ Alive
  /\ poll.pc = "idle"
  /\ poll' = [pc |-> "L306", ret |-> "none", ids |-> ids, currSet |-> CurrSet(ids),
              iter |-> CurrSet(ids)]
  /\ emitted' = <<>>
  /\ UNCHANGED <<blizVars, panicked, lastIDs, devListeners, devSubs>>

\* PollOnce, lines 250-276: one of the error returns before emitDiff.
PollFail ==
  /\ Alive
  /\ poll.pc = "idle"
  /\ poll' = [NoPoll EXCEPT !.ret = "err"]
  /\ UNCHANGED <<blizVars, panicked, lastIDs, devListeners, devSubs, emitted>>

\* emitDiff, lines 306-310: one iteration of the loop over currSet, in the
\* order the map yields.
EmitOnline(id) ==
  /\ Alive
  /\ poll.pc = "L306"
  /\ id \in poll.iter
  /\ poll' = [poll EXCEPT !.iter = @ \ {id}]
  /\ IF id \notin lastIDs
       THEN DevBroadcast(DevEvent("online", id))
       ELSE UNCHANGED <<emitted, devSubs, panicked>>
  /\ UNCHANGED <<blizVars, lastIDs, devListeners>>

\* emitDiff, line 306 to line 312: the first loop ends, the second starts.
OnlineEnd ==
  /\ Alive
  /\ poll.pc = "L306"
  /\ poll.iter = {}
  /\ poll' = [poll EXCEPT !.pc = "L312", !.iter = lastIDs]
  /\ UNCHANGED <<blizVars, panicked, lastIDs, devListeners, devSubs, emitted>>

\* EmitOffline without the test of line 313.
EmitOfflineAll(id) ==
  /\ Alive
  /\ poll.pc = "L312"
  /\ id \in poll.iter
  /\ poll' = [poll EXCEPT !.iter = @ \ {id}]
  /\ DevBroadcast(DevEvent("offline", id))
  /\ UNCHANGED <<blizVars, lastIDs, devListeners>>

\* emitDiff, lines 312-316: one iteration of the loop over d.lastIDs.
EmitOffline(id) ==
  /\ Alive
  /\ poll.pc = "L312"
  /\ id \in poll.iter
  /\ poll' = [poll EXCEPT !.iter = @ \ {id}]
  /\ IF id \notin poll.currSet
       THEN DevBroadcast(DevEvent("offline", id))
       ELSE UNCHANGED <<emitted, devSubs, panicked>>
  /\ UNCHANGED <<blizVars, lastIDs, devListeners>>

\* emitDiff, lines 317-318, and PollOnce, line 294: the set is remembered,
\* d.mu is released, PollOnce returns (ids, nil).
EmitDiffEnd ==
  /\ Alive
  /\ poll.pc = "L312"
  /\ poll.iter = {}
  /\ lastIDs' = poll.currSet
  /\ poll' = [NoPoll EXCEPT !.ret = "ids", !.ids = poll.ids]
  /\ UNCHANGED <<blizVars, panicked, devListeners, devSubs, emitted>>

\* DeviceAdapter.Subscribe, lines 341-347; d.mu is free when no emitDiff runs.
DevSubscribe(buffer) ==
  /\ Alive
  /\ poll.pc = "idle"
  /\ Len(devSubs) < MaxDevSubs
  /\ devSubs' = Append(devSubs, NewEventSub(buffer))
  /\ devListeners' = Append(devListeners, Len(devSubs) + 1)
  /\ UNCHANGED <<blizVars, panicked, lastIDs, poll, emitted>>

\* eventSub.Close, lines 355-361, called by the one task that owns the
\* subscription.
DevSubClose(s) ==
  /\ Alive
  /\ s \in DOMAIN devSubs
  /\ IF devSubs[s].closeFn
       THEN IF devSubs[s].closed
              THEN panicked' = "close of closed channel: eventSub.ch" /\ UNCHANGED devSubs
              ELSE /\ devSubs' = [devSubs EXCEPT ![s].closed = TRUE, ![s].closeFn = FALSE]
                   /\ UNCHANGED panicked
       ELSE UNCHANGED <<devSubs, panicked>>
  /\ UNCHANGED <<blizVars, lastIDs, devListeners, poll, emitted>>

\* A subscriber receives from C().
DevRecv(s) ==
  /\ Alive
  /\ s \in DOMAIN devSubs
  /\ devSubs[s].buf # <<>>
  /\ devSubs' = [devSubs EXCEPT ![s].buf = Tail(@)]
  /\ UNCHANGED <<blizVars, panicked, lastIDs, devListeners, poll, emitted>>

\* Polls, subscriptions and their Close on one DeviceAdapter.
NextDevice ==
  \/ \E ids \in IdLists : PollOnce(ids)
  \/ PollFail
  \/ \E id \in DevIds : EmitOnline(id)
  \/ OnlineEnd
  \/ \E id \in DevIds : EmitOffline(id)
  \/ EmitDiffEnd
  \/ \E buffer \in DevBuffers : DevSubscribe(buffer)
  \/ \E s \in 1..MaxDevSubs : DevSubClose(s)
  \/ \E s \in 1..MaxDevSubs : DevRecv(s)

SpecDevice == Init /\ [][NextDevice]_vars

\* ------------------------------------------------------------- properties
\* The Offline event of line 304.
OfflineFinal == MkEvent("offline", <<>>, "read error")
\* The Offline event of line 287.
OfflineRetry == MkEvent("offline", <<>>, "read error, retrying once")
Range(q) == {q[i] : i \in DOMAIN q}
CloseBody == {"close_flag", "close_conn", "close_transport", "close_drain", "close_listeners"}

\* C1: for any Calls in flight at once and any order of the server's
\* responses, the frame in a Call's delivery slot and the frame a Call
\* returns carry the id of that Call's own request.
C1_OwnResponse ==
  \A t \in Callers :
    /\ chans[t].buf # <<>> => Head(chans[t].buf).id = NewId(t)
    /\ out[t].frame # <<>> => Head(out[t].frame).id = NewId(t)

\* Both callers had their requests on the wire at once and each has returned
\* its own response.
C1_Witness ==
  \A t \in Callers : pc[t] = "done" /\ out[t].line = 241 /\ Head(out[t].frame).id = NewId(t)

\* C2: a delivery slot accepts at most one payload and is closed at most
\* once, whatever the interleaving of the read loop's delivery, Close's drain
\* and the caller's timeout: no send on, or close of, a closed slot.
C2_ResolvedOnce ==
  /\ panicked \notin {"close of closed channel: pending", "send on closed channel: pending"}
  /\ \A t \in Callers : chans[t].sent <= 1

\* A Call timed out while the read loop held its entry, the adapter was closed
\* and the late delivery still went into the slot: one payload, closed once.
C2_Witness ==
  \E t \in Callers :
    /\ out[t].line = 232 /\ closeReturned
    /\ chans[t].closed /\ chans[t].sent = 1

\* C3: no two Calls are inside WriteMessage on the same handle at once.
C3_WritesExclusive ==
  \A t, u \in Callers :
    (pc[t] = "call_writing" /\ pc[u] = "call_writing" /\ lc[t] = lc[u]) => t = u

\* C4: once Close has returned and no Call is executing, the pending table
\* is empty: every entry was resolved by the drain or removed by its Call.
C4_EmptyAfterClose ==
  (closeReturned /\ \A t \in Callers : pc[t] \in {"idle", "done"}) => DOMAIN pending = {}

\* C5: a Close invoked when b.closed is already closed returns nil at once:
\* it never goes on to close(b.closed), and its return changes nothing of the
\* connection, the pending table, the registry, the flag or the panic state.
C5_CloseIdempotent ==
  [][\A p \in Users \cup Loops :
       (closed /\ AtClose(p)) =>
          /\ pc'[p] \notin CloseBody
          /\ ((p \in Users /\ out'[p] # out[p] /\ out'[p].op = "Close")
               \/ (p \in Loops /\ pc'[p] = "exit")) =>
                /\ p \in Users => out'[p] = MkOut("Close", 167, "nil", <<>>)
                /\ UNCHANGED <<connVars, callVars, subVars, closed, panicked>>
    ]_vars

\* A second Close has returned through the already-closed path after the
\* first one returned.
C5_Witness ==
  /\ closeReturned /\ panicked = "none"
  /\ \E p \in Users : out[p] = MkOut("Close", 167, "nil", <<>>)

\* C6: b.closed is never closed twice, whoever calls Close concurrently.
C6_ClosedOnce == panicked # "close of closed channel: b.closed"

\* C7: once Close has returned, every subscription it released from the
\* registry has had its channel closed.
C7_CloseEndsSubscriptions ==
  closeReturned => \A s \in DOMAIN subs : s \notin Range(listeners) => subs[s].closed

\* C8: a Call invoked after Close returned never returns a result.
C8_NoResultAfterClose ==
  \A t \in Callers : (afterClose[t] /\ pc[t] = "done") => out[t].err # "nil"

\* C9: a Connect invoked after Close returned does not return nil, the
\* return that follows installing the handle and starting the read loop.
C9_NoConnectAfterClose ==
  \A t \in Users :
    (afterClose[t] /\ pc[t] = "idle" /\ out[t].op = "Connect") => out[t].err # "nil"

\* C10: after Close returned the registry stays empty: no Subscribe adds to it.
C10_NoSubscribeAfterClose == closeReturned => listeners = <<>>

\* C11: a Call that finds b.conn nil (the adapter never connected, or Close
\* dropped the connection) returns "not connected" in that very step: its
\* request is on no transport, nothing is written and it never waits in the
\* select.
C11_NotConnected ==
  [][\A t \in Callers :
       (pc[t] = "call_conn" /\ conn = 0 /\ pc'[t] # "call_conn") =>
          /\ pc'[t] = "done"
          /\ out'[t] = MkOut("Call", 215, "not connected", <<>>)
          /\ NewId(t) \notin WireIds
          /\ UNCHANGED <<connVars, chans>>
    ]_vars

\* One Call returned "not connected" on the adapter that never connected and
\* another on the adapter whose connection Close dropped.
C11_Witness ==
  \E t, u \in Callers :
    /\ out[t].line = 215 /\ out[u].line = 215
    /\ ~afterClose[t] /\ afterClose[u] /\ handles # <<>>

\* C12: a Call that wrote its request and whose select takes ctx.Done()
\* returns ctx.Err() and nothing else, and from its return on its id is not
\* in the pending table.
C12_TimeoutDeregisters ==
  [][\A t \in Callers :
       /\ (pc[t] = "call_timeout" /\ pc'[t] # "call_timeout") =>
             /\ pc'[t] = "done"
             /\ out'[t] = MkOut("Call", 232, "context done", <<>>)
       /\ (pc'[t] = "done" /\ out'[t].line = 232) =>
             /\ NewId(t) \in WireIds
             /\ NewId(t) \notin DOMAIN pending'
    ]_vars

\* A Call wrote its request, parked with no response delivered, timed out and
\* returned ctx.Err() while the other Call is still registered.
C12_Witness ==
  \E t, u \in Callers :
    /\ pc[t] = "done" /\ out[t].line = 232 /\ NewId(t) \in WireIds
    /\ chans[t].sent = 0 /\ ~chans[t].closed
    /\ DOMAIN pending = {NewId(u)}

\* C13: no Call waits forever once its timeout is armed: a Call that has
\* written its request and not yet returned can always take its next step
\* (receive from its slot, or leave the select through ctx.Done()).
C13_CallCanProceed ==
  \A t \in Callers :
    pc[t] \in {"call_select", "call_parked", "call_timeout", "call_recv"} =>
      ENABLED CallSteps(t)

\* C14: a response whose id is not in the pending table is discarded: the
\* read loop's lookup step changes neither the table, nor any delivery slot,
\* nor any subscription, nor any caller's position or outcome, and the loop
\* goes back to ReadMessage.
C14_OrphanDiscarded ==
  [][\A l \in Loops :
       (/\ pc[l] = "rl_lookup"
        /\ Head(loop[l].data).id \notin DOMAIN pending
        /\ pc'[l] # "rl_lookup") =>
          /\ pc'[l] = "rl_read"
          /\ \A t \in Tasks : pc'[t] = pc[t]
          /\ UNCHANGED <<taskVars, connVars, callVars, subVars, closed, panicked>>
    ]_vars

\* The read loop holds a response for a Call that already timed out, while
\* the other Call is still registered.
C14_Witness ==
  \E l \in Loops, t, u \in Callers :
    /\ pc[l] = "rl_lookup" /\ Head(loop[l].data).id = NewId(t)
    /\ out[t].line = 232 /\ DOMAIN pending = {NewId(u)}

\* C15: one run of the read loop redials at most once.  retried, once set,
\* stays set; a read failure with retried unset sets it and takes the retry
\* path, a read failure with retried set takes the final path; the loop
\* reaches the redial only from the retry path; and the final path leads to
\* Close and never to a dial.
C15_OneReconnect ==
  [][\A l \in Loops :
       /\ loop[l].retried => loop'[l].retried
       /\ (pc[l] = "rl_read" /\ pc'[l] = "bc_check" /\ loop'[l].site # "note") =>
             /\ loop'[l].retried
             /\ loop'[l].site = IF loop[l].retried THEN "final" ELSE "retry"
       /\ (pc'[l] = "rl_dial" /\ pc[l] # "rl_dial") =>
             loop[l].site = "retry" /\ loop'[l].retried
       /\ (loop[l].site = "final" /\ pc'[l] # pc[l]) =>
             pc'[l] \in {"bc_snap", "bc_send", "rl_close"}
    ]_vars

\* The read loop reconnected, read from the new handle, failed again and is
\* about to call Close with the reconnected handle still installed.
C15_Witness ==
  \E l \in Loops :
    /\ pc[l] = "rl_close" /\ loop[l].retried
    /\ Len(handles) = 2 /\ conn = 2 /\ lc[l] = 2 /\ ~closed

\* C16: a failed redial is followed by the broadcast of the Offline event of
\* line 304, which is not skipped and is enqueued for every registered
\* subscriber with room, and then by Close; once the read loop has returned
\* from its fatal path the adapter is Closed with no connection installed, and
\* every Call invoked after that Close returned gets "not connected".
C16_FailedReconnectCloses ==
  /\ [](\A l \in Loops :
          (pc[l] = "exit" /\ loop[l].retried) => (closed /\ closeReturned /\ conn = 0))
  /\ [](\A t \in Callers :
          (afterClose[t] /\ pc[t] = "done") =>
             out[t] = MkOut("Call", 215, "not connected", <<>>))
  /\ [][\A l \in Loops :
          /\ (pc[l] = "rl_dial" /\ pc'[l] \notin {"rl_dial", "rl_install"}) =>
                /\ pc'[l] = "bc_check"
                /\ loop'[l].site = "final" /\ loop'[l].evt = <<OfflineFinal>>
          /\ (pc[l] = "bc_check" /\ loop[l].site = "final" /\ pc'[l] # "bc_check") =>
                pc'[l] = "bc_snap"
          /\ (pc[l] = "bc_send" /\ loop[l].site = "final" /\ pc'[l] # "bc_send") =>
                /\ pc'[l] = "rl_close"
                /\ \A s \in Range(loop[l].snap) :
                     Len(subs[s].buf) < subs[s].cap =>
                        subs'[s].buf = Append(subs[s].buf, OfflineFinal)
       ]_vars

\* The redial failed (no second handle exists), the read loop closed the
\* adapter and returned, a subscriber holds the Offline event and a Call
\* invoked afterwards returned "not connected".
C16_Witness ==
  \E l \in Loops, t \in Callers, s \in DOMAIN subs :
    /\ pc[l] = "exit" /\ loop[l].retried /\ Len(handles) = 1
    /\ subs[s].buf = <<OfflineFinal>>
    /\ afterClose[t] /\ out[t].line = 215

\* C17: after a successful redial the adapter is not Closed and the handle
\* just dialed is the installed one and is open; the read loop goes back to
\* ReadMessage on that handle; a Call that reads b.conn from then on writes
\* its request to that handle.
C17_ReconnectResumes ==
  /\ [](\A l \in Loops :
          (pc[l] = "rl_reload" \/ (pc[l] = "rl_read" /\ loop[l].retried)) =>
             /\ ~closed
             /\ conn = Len(handles) /\ handles[conn]
             /\ pc[l] = "rl_read" => lc[l] = conn)
  /\ [][/\ \A l \in Loops :
            (pc[l] = "rl_reload" /\ pc'[l] # "rl_reload") => pc'[l] = "rl_read"
        /\ \A t \in Callers :
            /\ (pc[t] = "call_conn" /\ pc'[t] = "call_writing") => lc'[t] = conn
            /\ (pc[t] = "call_writing" /\ pc'[t] = "call_select") =>
                  NewId(t) \in wire'[lc[t]]
       ]_vars

\* After the swap a Call wrote its request to the new handle only and
\* returned the server's response, with the adapter still open and the read
\* loop reading the new handle.
C17_Witness ==
  \E l \in Loops, t \in Callers :
    /\ pc[l] = "rl_read" /\ loop[l].retried /\ ~closed /\ Len(handles) = 2
    /\ pc[t] = "done" /\ out[t].line = 241 /\ out[t].err = "nil"
    /\ NewId(t) \in wire[2] /\ NewId(t) \notin wire[1]

\* C18: no step of the reconnect (the redial, the swap of the handle, the
\* reload of b.conn) changes the pending table or a delivery slot, wakes a
\* caller or makes a Call return.
C18_ReconnectKeepsPending ==
  [][\A l \in Loops :
       (pc[l] \in {"rl_dial", "rl_install", "rl_reload"} /\ pc'[l] # pc[l]) =>
          /\ UNCHANGED <<pending, chans, out>>
          /\ \A t \in Callers : pc'[t] = pc[t]
    ]_vars

\* The reconnect has swapped the handle while both Calls, written to the old
\* handle, are parked: both are still registered with open, empty slots.
C18_Witness ==
  \E l \in Loops :
    /\ pc[l] = "rl_reload" /\ conn = 2 /\ wire[1] = Callers
    /\ \A t \in Callers :
         /\ pc[t] = "call_parked" /\ NewId(t) \in DOMAIN pending
         /\ pending[NewId(t)] = t /\ chans[t] = NewChan

\* C19: every handle that is open is the installed one, unless it is in the
\* hands of the Connect or reconnect about to install it or of the Close about
\* to close it; and once Close has returned no open handle is installed.
C19_OneOpenTransport ==
  /\ \A h \in DOMAIN handles :
       handles[h] =>
          \/ h = conn
          \/ \E p \in Procs :
               lc[p] = h /\ pc[p] \in {"connect_install", "rl_install", "close_transport"}
  /\ closeReturned => (conn = 0 \/ ~handles[conn])

\* C20: broadcast copies the registry and its sends never block: the step
\* is always enabled and takes the read loop on to where broadcast was
\* called from; every subscriber of the copy gets the event appended when
\* its buffer has room and keeps its buffer as it is when full, whatever the
\* state of the others; nothing else changes.
C20_PublishNeverBlocks ==
  /\ [](\A l \in Loops : pc[l] = "bc_send" => ENABLED BroadcastSend(l))
  /\ [][\A l \in Loops :
          /\ (pc[l] = "bc_snap" /\ pc'[l] # "bc_snap") => loop'[l].snap = listeners
          /\ (pc[l] = "bc_send" /\ pc'[l] # "bc_send") =>
                /\ pc'[l] = AfterBroadcast(loop[l].site)
                /\ panicked' = panicked
                /\ \A s \in DOMAIN subs :
                     subs'[s].buf =
                       IF s \in Range(loop[l].snap) /\ Len(subs[s].buf) < subs[s].cap
                         THEN Append(subs[s].buf, Head(loop[l].evt))
                         ELSE subs[s].buf
       ]_vars

\* Two subscribers are registered; the first still holds the first Offline
\* event, so the second Offline event was dropped for it, and was delivered
\* to the second subscriber; the read loop has gone on to Close.
C20_Witness ==
  \E l \in Loops :
    /\ pc[l] = "rl_close" /\ listeners = <<1, 2>>
    /\ subs[1].buf = <<OfflineRetry>> /\ subs[2].buf = <<OfflineFinal>>

\* C21: however often Close is called on a subscription, its channel is
\* never closed a second time and every call returns nil.
C21_SubCloseIdempotent ==
  /\ panicked # "close of closed channel: es.ch"
  /\ \A t \in Users : out[t].op = "SubClose" => out[t] = MkOut("SubClose", 54, "nil", <<>>)

\* Both subscriptions are closed and the last Close returned nil: the state
\* every further Close on either of them leaves as it is.
C21_Witness ==
  /\ panicked = "none" /\ Len(subs) = 2
  /\ \A s \in DOMAIN subs : subs[s].closed
  /\ \E t \in Users : out[t] = MkOut("SubClose", 54, "nil", <<>>)

\* C22: a subscription whose Close has returned is no longer in the
\* adapter's registry, and no broadcast sends on its closed channel.
C22_CloseUnregisters ==
  /\ \A s \in DOMAIN subs : subs[s].closed => s \notin Range(listeners)
  /\ panicked # "send on closed channel: es.ch"

\* C23: when the only read failures are those Close causes by closing the
\* transport, the read loop never dials: the transport Connect dialled stays
\* the only one.
C23_NoRedialAfterClose == Len(handles) <= 1

\* C24: the Call that takes a delivered response from its channel returns
\* with a nil error and with exactly that response's result and error
\* members: an error object comes back as data, a result as the result.
C24_ErrorIsData ==
  [][\A t \in Callers :
       (chans[t].buf # <<>> /\ chans'[t].buf = <<>> /\ Head(chans[t].buf).json)
         => /\ out'[t].op = "Call" /\ out'[t].err = "nil"
            /\ Len(out'[t].frame) = 1
            /\ out'[t].frame[1].result = Head(chans[t].buf).result
            /\ out'[t].frame[1].error = Head(chans[t].buf).error]_vars

\* One Call has returned an error object and another a result, both with a
\* nil error.
C24_Witness ==
  \E t, u \in Callers :
    /\ out[t] = MkOut("Call", 241, "nil", <<RespError(NewId(t))>>)
    /\ out[u] = MkOut("Call", 241, "nil", <<RespResult(NewId(u))>>)

\* C25: a Call with an empty method returns "method required" at once and
\* changes neither the pending table nor any channel nor the transport; a
\* Call with a method and a timeout of zero or less is not turned away for
\* its timeout and runs with a timeout of 5 seconds.
C25_ArgumentChecks ==
  [][\A t \in Callers :
       (pc[t] = "idle" /\ pc'[t] # "idle")
         => /\ call'[t].method = ""
                 => /\ out'[t] = MkOut("Call", 193, "method required", <<>>)
                    /\ pc'[t] = "done"
                    /\ UNCHANGED <<pending, chans, connVars>>
            /\ (call'[t].method # "" /\ call'[t].given <= 0)
                 => /\ call'[t].timeout = 5
                    /\ \/ pc'[t] = "call_conn" /\ NewId(t) \in DOMAIN pending'
                       \/ out'[t] = MkOut("Call", 203, "marshal error", <<>>)]_vars

\* One Call was rejected for its empty method while another, passed a
\* negative timeout, is registered and holds the default.
C25_Witness ==
  \E t, u \in Callers :
    /\ out[t] = MkOut("Call", 193, "method required", <<>>) /\ call[t].method = ""
    /\ call[u].method = "ping" /\ call[u].given < 0 /\ call[u].timeout = 5
    /\ NewId(u) \in DOMAIN pending /\ NewId(t) \notin DOMAIN pending

\* C26: the step in which a Call returns on its timeout or cancellation
\* keeps every other id's pending entry, every channel, the transport
\* handle and the handles' state, the closed flag, the subscriber registry
\* and every other task as they are.
C26_TimeoutIsLocal ==
  [][\A t \in Callers :
       (pc[t] = "call_timeout" /\ pc'[t] # "call_timeout")
         => /\ \A i \in DOMAIN pending \ {NewId(t)} :
                 i \in DOMAIN pending' /\ pending'[i] = pending[i]
            /\ DOMAIN pending' \subseteq DOMAIN pending
            /\ UNCHANGED <<connVars, chans, closed, closeReturned, subVars, loop>>
            /\ \A u \in Tasks \ {t} : pc'[u] = pc[u] /\ out'[u] = out[u]]_vars

\* A Call has timed out while another Call's entry is pending, the transport
\* is installed and open, the adapter is not closed and a subscriber is
\* registered.
C26_Witness ==
  \E t, u \in Callers :
    /\ t # u /\ out[t] = MkOut("Call", 232, "context done", <<>>)
    /\ NewId(u) \in DOMAIN pending /\ NewId(t) \notin DOMAIN pending
    /\ conn # 0 /\ handles[conn] /\ ~closed /\ listeners # <<>>

\* The events in the subscribers' channels.
Published == UNION {Range(subs[s].buf) : s \in DOMAIN subs}

\* C27: every Notification event a subscriber is sent carries the adapter's
\* device id, the source "adapter" and the decoded notification as payload.
C27_NotificationEvent ==
  \A e \in Published :
    e.kind = "notification"
      => e.device = DeviceId /\ e.source = "adapter" /\ Len(e.payload) = 1

\* C28: every Notification event a subscriber is sent was made from a frame
\* with a method and without an id.
C28_NoIdPublished ==
  \A e \in Published :
    e.kind = "notification" => e.payload[1].method /\ e.payload[1].id = 0

C30_OfflineFirst ==
  /\ [](\A l \in Loops :
          (pc[l] \in {"bc_check", "bc_snap", "bc_send"} /\ loop[l].site \in {"retry", "final"})
             => /\ ~closed /\ Range(listeners) = DOMAIN subs
                /\ pc[l] = "bc_send" => Range(loop[l].snap) \subseteq Range(listeners))
  /\ [][\A l \in Loops :
          /\ (pc'[l] = "rl_close" /\ pc[l] # "rl_close")
                => pc[l] = "bc_send" /\ loop[l].site = "final" /\ loop[l].evt = <<OfflineFinal>>
          /\ (pc'[l] = "rl_dial" /\ pc[l] # "rl_dial")
                => /\ pc[l] = "bc_send" /\ loop[l].site = "retry"
                   /\ loop[l].evt = <<OfflineRetry>>
                   /\ handles' = handles
          /\ (pc[l] = "bc_snap" /\ loop[l].site \in {"retry", "final"} /\ pc'[l] # "bc_snap")
                => loop'[l].snap = listeners
          /\ (pc[l] = "bc_send" /\ loop[l].site \in {"retry", "final"} /\ pc'[l] # "bc_send")
                => \A s \in Range(loop[l].snap) :
                     Len(subs[s].buf) < subs[s].cap
                       => subs'[s].buf = Append(subs[s].buf, Head(loop[l].evt))
       ]_vars

\* The read loop is about to call Close on the adapter, which is not closed
\* yet; one registered subscriber holds the first failure's Offline event and
\* another, whose buffer had room, the final one.
C30_Witness ==
  \E l \in Loops, s, r \in Range(listeners) :
    /\ pc[l] = "rl_close" /\ ~closed /\ loop[l].retried
    /\ subs[s].buf = <<OfflineRetry>> /\ subs[r].buf = <<OfflineFinal>>

\* C31: the write that puts a request's id on the wire comes after the
\* registration of that id: at the write the id is in the pending table,
\* registered for the writing Call, or Close has taken it out and closed the
\* Call's channel; and a Call that waits with nothing in its channel has its
\* entry in the table, unless the read loop has just taken the entry out and
\* is about to deliver to it.
C31_RegisteredBeforeWrite ==
  /\ [](\A t \in Callers :
          (pc[t] \in {"call_select", "call_parked"} /\ ~ChanReady(t))
             => \/ NewId(t) \in DOMAIN pending /\ pending[NewId(t)] = t
                \/ \E l \in Loops : pc[l] = "rl_deliver" /\ loop[l].ch = t)
  /\ [][\A h \in DOMAIN wire : \A i \in wire'[h] \ wire[h] :
          \E t \in Callers :
            /\ NewId(t) = i /\ pc[t] = "call_writing"
            /\ \/ i \in DOMAIN pending /\ pending[i] = t /\ i \in DOMAIN pending'
               \/ chans[t].closed /\ chans[t].buf = <<>>
       ]_vars

\* A response was looked up while its Call had only just written the request
\* and not yet entered its select: the entry was found, and the read loop is
\* about to deliver.
C31_Witness ==
  \E l \in Loops, t \in Callers :
    /\ pc[l] = "rl_deliver" /\ loop[l].ch = t /\ Head(loop[l].data).id = NewId(t)
    /\ pc[t] = "call_select" /\ ~ChanReady(t)

\* C32: while the process runs, a read loop that holds a channel to deliver
\* to can always take the delivery step, wherever the caller is, and that
\* step takes it back to ReadMessage without a panic; and at every position
\* other than ReadMessage the read loop has a step it can take.
C32_DeliveryNeverBlocks ==
  /\ [](\A l \in Loops :
          panicked = "none"
            => /\ pc[l] = "rl_deliver" => ENABLED RLDeliver(l)
               /\ pc[l] \notin {"unborn", "exit", "rl_read"}
                    => ENABLED (LoopSteps(l, PlainFrames) \/ CloseSteps(l)))
  /\ [][\A l \in Loops :
          (pc[l] = "rl_deliver" /\ pc'[l] # "rl_deliver")
             => /\ pc'[l] = "rl_read" /\ panicked' = panicked
                /\ chans'[loop[l].ch].closed
                /\ chans'[loop[l].ch].buf = loop[l].data
       ]_vars

\* The read loop has delivered a response to the channel of a Call that had
\* already timed out: the Call returned its timeout, the response stays in
\* the channel, and the loop is back at ReadMessage.
C32_Witness ==
  \E l \in Loops, t \in Callers :
    /\ pc[l] = "rl_read" /\ panicked = "none"
    /\ pc[t] = "done" /\ out[t] = MkOut("Call", 232, "context done", <<>>)
    /\ chans[t].closed /\ chans[t].buf = <<RespResult(NewId(t))>>

\* The statements task p can execute next.
Out(p) == {e \in Prog(p) : e.from = pc[p]}

\* C33: no task is at a statement that can wait for the peer or for another
\* task while it holds a mutex; no task holds two mutexes or asks for one
\* while it holds one; and whenever a task is kept waiting for a mutex, a
\* task that holds it is at a statement that neither waits nor asks for a
\* mutex, or the writer it queues behind can take the mutex.
C33_LockDiscipline ==
  \A p \in Procs :
    /\ Cardinality(Held[pc[p]]) <= 1
    /\ \A e \in Out(p) :
         /\ e.kind \in Waits \cup Acquires => Held[pc[p]] = {}
         /\ (e.kind \in Acquires /\ ~CanTake(p, e))
              => \E q \in Procs \ {p} :
                   \/ /\ \E m \in Held[pc[q]] : m[1] = e.lock
                      /\ Out(q) # {}
                      /\ \A d \in Out(q) : d.kind \notin Waits \cup Acquires
                   \/ \E d \in Out(q) :
                        d.kind = "lock" /\ d.lock = e.lock /\ CanTake(q, d)

\* All three mutexes are held at once, by three tasks, and a fourth task is
\* waiting for one of them: the read loop is in its lookup under pendingMu,
\* the user in Subscribe under listenersMu, one Call reads b.conn under
\* connMu and the other Call waits for pendingMu.
C33_Witness ==
  \E t, u \in Callers, v \in Users, l \in Loops :
    /\ pc[l] = "L312" /\ pc[v] = "L249" /\ pc[t] = "L212" /\ pc[u] = "L207"
    /\ \E e \in Out(u) : ~CanTake(u, e)

\* C34: at most one read loop is running.
C34_OneReadLoop == Cardinality({l \in Loops : pc[l] \notin {"unborn", "exit"}}) <= 1

\* C35: the id of a Call that has returned is not in the pending table.
C35_OnlyRunningCalls ==
  \A t \in Callers : pc[t] = "done" => NewId(t) \notin DOMAIN pending

\* C36: a subscriber's channel changes only at its two ends: a step either
\* leaves it as it is, or takes the event at its head (the dequeue), or adds
\* at its tail, once, the event of the broadcast whose sends that step is and
\* whose copy of the registry holds the subscriber.
C36_PublicationOrder ==
  [][\A s \in DOMAIN subs :
       \/ subs'[s].buf = subs[s].buf
       \/ subs[s].buf # <<>> /\ subs'[s].buf = Tail(subs[s].buf)
       \/ \E l \in Loops :
            /\ pc[l] = "bc_send" /\ pc'[l] # "bc_send"
            /\ s \in Range(loop[l].snap) /\ Len(subs[s].buf) < subs[s].cap
            /\ subs'[s].buf = Append(subs[s].buf, Head(loop[l].evt))]_vars

\* Both subscribers were sent the first Offline event and then the final
\* one; the first had dequeued the earlier event, the second holds the two
\* in the order they were published.
C36_Witness ==
  /\ Len(subs) = 2
  /\ subs[1].buf = <<OfflineFinal>>
  /\ subs[2].buf = <<OfflineRetry, OfflineFinal>>

\* The events emitDiff owes for a poll that returned ids when prev was
\* remembered.
Owed(prev, ids) ==
  {DevEvent("online", id) : id \in Range(ids) \ prev}
    \cup {DevEvent("offline", id) : id \in prev \ Range(ids)}

\* C37: when a poll of the DeviceAdapter completes, it has broadcast one
\* Online event for each id in its result that the previous result lacked,
\* one Offline event for each id of the previous result that its result
\* lacks, and nothing else; from then on the remembered set is the set of
\* ids of its result.
C37_DiffEvents ==
  [][(poll.pc = "L312" /\ poll'.pc = "idle") =>
       /\ Range(emitted') = Owed(lastIDs, poll.ids)
       /\ Len(emitted') = Cardinality(Owed(lastIDs, poll.ids))
       /\ lastIDs' = Range(poll.ids)]_vars

\* A poll has completed that found one device new, one gone and one still
\* present.
C37_Witness ==
  /\ poll.pc = "idle"
  /\ poll.ret = "ids"
  /\ lastIDs = {"d2", "d3"}
  /\ Range(emitted) = {DevEvent("online", "d3"), DevEvent("offline", "d1")}

\* C38: a poll never sends on the channel of a subscription that was closed
\* with Close().
C38_NoSendOnClosed ==
  ~(poll.pc # "idle" /\ panicked = "send on closed channel: eventSub.ch")

=============================================================================
